---- MODULE Spec2Model ----
(***************************************************************************)
(* Messaging Automation Bot (src/bot.py): the mock calendar store, the     *)
(* daily digest, the alert simulator, the command loop and the two run     *)
(* modes (demo, interactive), as a state machine.                          *)
(*                                                                         *)
(* Time is the local wall clock in whole seconds since 00:00:00 of day 0.  *)
(* A datetime is [wall, off]: the wall-clock fields and the utcoffset of   *)
(* its tzinfo in minutes; aware datetimes compare by their UTC instants.   *)
(* An ISO string is the record of the fields isoformat() writes.           *)
(* Sub-second parts are dropped, and the modelled seconds hold no          *)
(* daylight-saving transition. A sleep lasts its delay; the calls between  *)
(* two sleeps take no time.                                                *)
(*                                                                         *)
(* Three specifications: Spec is a run of the program from its start;      *)
(* SpecStore runs the demo and the commands on arbitrary small stores;     *)
(* SpecRead runs the reads one store access at a time beside the worker.   *)
(***************************************************************************)
EXTENDS Integers, Sequences, FiniteSets, TLC

VARIABLES
    mode,         \* "demo" (--demo) or "interactive"
    clock,        \* wall clock, seconds
    events,       \* cal.events
    mainPc,       \* position of the main flow
    duration,     \* run_demo's duration argument
    demoStart,    \* run_demo's start = time.time()
    digestCount,  \* number of daily_digest runs
    out,          \* the last block printed by the digest or the console
    lastOp,       \* the last call of a store write and what it returned
    alertCount,   \* number of realtime_alert calls
    lastAlert,    \* the last realtime_alert
    iter,         \* alert iterations completed (demo loop or worker)
    wpc,          \* position of the alert worker thread
    wake,         \* wall clock at which the worker's sleep ends
    stopFlag,     \* stop_event
    sched,        \* the BackgroundScheduler: "none", "running", "shutdown"
    nextFire,     \* the cron trigger's next fire time
    bootClock,    \* wall clock at process start
    reader        \* a today, week, kpi or digest in progress, step by step

vars == <<mode, clock, events, mainPc, duration, demoStart, digestCount, out,
          lastOp, alertCount, lastAlert, iter, wpc, wake, stopFlag, sched,
          nextFire, bootClock, reader>>

(***************************************************************************)
(* Program constants                                                       *)
(***************************************************************************)
DaySecs == 86400
HourSecs == 3600
PacificOffsetMin == -473
SeedCount == 10
SeedHour == 9
SeedKpiMin == 10
SeedKpiMax == 200
NewHour == 10
NewDayMin == 0
NewDayMax == 5
NewKpiMin == 5
NewKpiMax == 300
BumpMin == 1
BumpMax == 50
DemoDelayMin == 2
DemoDelayMax == 6
WorkerDelayMin == 10
WorkerDelayMax == 20
DigestHour == 8
WeekDays == 7

(***************************************************************************)
(* Bounds of the model                                                     *)
(***************************************************************************)
MaxDuration == 3
MaxTicks == 1
MaxLen == 3
MaxStore == 2

(***************************************************************************)
(* datetime, timedelta, isoformat, fromisoformat                           *)
(***************************************************************************)
Now(c) == [wall |-> c, off |-> PacificOffsetMin]

Plus(dt, secs) == [dt EXCEPT !.wall = dt.wall + secs]

ReplaceHour(dt, h) ==
    [dt EXCEPT !.wall = (dt.wall \div DaySecs) * DaySecs + h * HourSecs]

Utc(dt) == dt.wall - dt.off * 60

Le(a, b) == Utc(a) <= Utc(b)

IsoFormat(dt) ==
    [date |-> dt.wall \div DaySecs,
     hh   |-> (dt.wall % DaySecs) \div HourSecs,
     mm   |-> (dt.wall % HourSecs) \div 60,
     ss   |-> dt.wall % 60,
     off  |-> dt.off]

FromIsoFormat(s) ==
    [wall |-> s.date * DaySecs + s.hh * HourSecs + s.mm * 60 + s.ss,
     off  |-> s.off]

(***************************************************************************)
(* MockCalendar                                                            *)
(***************************************************************************)
\* The seed with its days counted from tomorrow.
SeedEventFromTomorrow(now, i, kpi) ==
    LET start == ReplaceHour(Plus(now, i * DaySecs), SeedHour)
        end   == Plus(start, HourSecs)
    IN  [id           |-> <<"evt", i>>,
         summary      |-> <<"Mock Event", i>>,
         start        |-> IsoFormat(start),
         end          |-> IsoFormat(end),
         updated      |-> IsoFormat(Plus(start, -HourSecs)),
         kpi_estimate |-> kpi]

SeedEvent(now, i, kpi) ==
    LET start == ReplaceHour(Plus(now, (i - 1) * DaySecs), SeedHour)
        end   == Plus(start, HourSecs)
    IN  [id           |-> <<"evt", i>>,
         summary      |-> <<"Mock Event", i>>,
         start        |-> IsoFormat(start),
         end          |-> IsoFormat(end),
         updated      |-> IsoFormat(Plus(start, -HourSecs)),
         kpi_estimate |-> kpi]

\* A calendar constructed without seeding.
SeedEventsNone(now, kpis) == <<>>

SeedEvents(now, kpis) == [i \in 1..SeedCount |-> SeedEvent(now, i, kpis[i])]

InRangeStrict(a, s, b) == Utc(a) < Utc(s) /\ Utc(s) < Utc(b)

InRange(a, s, b) == Le(a, s) /\ Le(s, b)

RECURSIVE ListEventsFrom(_, _, _, _, _)
ListEventsFrom(evs, k, a, b, acc) ==
    IF k > Len(evs) THEN acc
    ELSE LET s == FromIsoFormat(evs[k].start)
         IN  ListEventsFrom(evs, k + 1, a, b,
                 IF InRange(a, s, b) THEN Append(acc, evs[k]) ELSE acc)

ListEvents(evs, a, b) == ListEventsFrom(evs, 1, a, b, <<>>)

NewEventReusesId(evs, now, d, kpi) ==
    LET i     == Len(evs)
        start == ReplaceHour(Plus(now, d * DaySecs), NewHour)
        end   == Plus(start, HourSecs)
    IN  [id           |-> <<"evt", i>>,
         summary      |-> <<"Simulated Event", i>>,
         start        |-> IsoFormat(start),
         end          |-> IsoFormat(end),
         updated      |-> IsoFormat(now),
         kpi_estimate |-> kpi]

NewEvent(evs, now, d, kpi) ==
    LET i     == Len(evs) + 1
        start == ReplaceHour(Plus(now, d * DaySecs), NewHour)
        end   == Plus(start, HourSecs)
    IN  [id           |-> <<"evt", i>>,
         summary      |-> <<"Simulated Event", i>>,
         start        |-> IsoFormat(start),
         end          |-> IsoFormat(end),
         updated      |-> IsoFormat(now),
         kpi_estimate |-> kpi]

\* simulate_new_event: the store after the append, and the event returned.
SimulateNewEvent(evs, now, d, kpi) ==
    LET evt == NewEvent(evs, now, d, kpi)
    IN  [events |-> Append(evs, evt), ret |-> <<evt>>]

BumpedEventFromZero(e, now, inc) ==
    [e EXCEPT !.updated = IsoFormat(now), !.kpi_estimate = @ + inc - 1]

BumpedEvent(e, now, inc) ==
    [e EXCEPT !.updated = IsoFormat(now), !.kpi_estimate = @ + inc]

\* The update done as a removal and a re-insertion at the end.
SimulateUpdateEventReinserts(evs, now, idx, inc) ==
    IF evs = <<>> THEN [events |-> evs, ret |-> <<>>]
    ELSE LET e == BumpedEvent(evs[idx], now, inc)
         IN  [events |-> SubSeq(evs, 1, idx - 1)
                            \o SubSeq(evs, idx + 1, Len(evs)) \o <<e>>,
              ret |-> <<e>>]

\* simulate_update_event: None is the empty ret; otherwise events[idx] is
\* mutated in place and returned.
SimulateUpdateEvent(evs, now, idx, inc) ==
    IF evs = <<>> THEN [events |-> evs, ret |-> <<>>]
    ELSE LET e == BumpedEvent(evs[idx], now, inc)
         IN  [events |-> [evs EXCEPT ![idx] = e], ret |-> <<e>>]

\* random.choice(self.events): any position; 0 stands for "no choice made".
ChoiceIdx(evs) == IF evs = <<>> THEN {0} ELSE 1..Len(evs)

(***************************************************************************)
(* Inputs: the values the random draws and the environment range over      *)
(***************************************************************************)
NewDays == NewDayMin..NewDayMax
NewKpis == {NewKpiMin, NewKpiMax}
Bumps == {BumpMin, BumpMax}
\* random.uniform(0, 6)
DemoDelaysFromZero == 0..DemoDelayMax

DemoDelays == DemoDelayMin..DemoDelayMax
WorkerDelays == {WorkerDelayMin, WorkerDelayMax}
TickStep == WorkerDelayMin
StartClocks == {8 * HourSecs - 10, DaySecs - 10}
SeedKpiSamples ==
    { [i \in 1..SeedCount |-> SeedKpiMin],
      [i \in 1..SeedCount |-> IF i % 2 = 0 THEN SeedKpiMax ELSE SeedKpiMin + i] }

(***************************************************************************)
(* Output blocks                                                           *)
(***************************************************************************)
NoOut == [kind |-> "none", range |-> <<>>, list |-> <<>>, count |-> 0,
          total |-> 0, avg |-> <<0, 1>>]

Line(kind) == [NoOut EXCEPT !.kind = kind]

\* A listing of cal.list_events(r[1], r[2]).
Listing(kind, evs, r) ==
    [NoOut EXCEPT !.kind = kind, !.range = r, !.list = ListEvents(evs, r[1], r[2])]

RECURSIVE SumKpi(_)
SumKpi(evs) ==
    IF evs = <<>> THEN 0 ELSE Head(evs).kpi_estimate + SumKpi(Tail(evs))

StartOfDay(now) == ReplaceHour(now, 0)

EndOfDayNextMidnight(now) == Plus(StartOfDay(now), DaySecs)

EndOfDay(now) == Plus(StartOfDay(now), DaySecs - 1)

\* The range daily_digest and the today command pass to list_events.
TodayRange(c) == <<StartOfDay(Now(c)), EndOfDay(Now(c))>>

\* The range the week and kpi commands pass to list_events.
WeekRange(c) == <<Now(c), Plus(Now(c), WeekDays * DaySecs)>>

AverageFloorDiv(total, n) == IF n > 0 THEN <<total \div n, 1>> ELSE <<0, 1>>

\* avg_kpi = total_kpi / len(events) if events else 0, as a fraction.
Average(total, n) == IF n > 0 THEN <<total, n>> ELSE <<0, 1>>

KpiSummary(evs, c) ==
    LET r      == WeekRange(c)
        listed == ListEvents(evs, r[1], r[2])
        total  == SumKpi(listed)
    IN  [kind |-> "kpi", range |-> r, list |-> <<>>, count |-> Len(listed),
         total |-> total, avg |-> Average(total, Len(listed))]

NoOp == [op |-> "none", ret |-> <<>>, now |-> 0]

\* No read in progress. A read in progress holds the range it was given,
\* the position k of its scan of cal.events, the references it has
\* collected (positions of the store), the position j in them of the next
\* event to print or add, what it has printed and added so far, and the
\* states of the store it has run alongside (seen).
NoReader == [pc |-> "idle", kind |-> "none", range |-> <<>>, k |-> 0,
             refs |-> <<>>, j |-> 0, list |-> <<>>, total |-> 0,
             seen |-> <<>>]

NoAlert == [action |-> "none", evt |-> <<>>, at |-> 0]

(***************************************************************************)
(* Initial states: cal = MockCalendar() at import, then the mode chosen by *)
(* --demo                                                                  *)
(***************************************************************************)
Init ==
    /\ mode \in {"demo", "interactive"}
    /\ clock \in StartClocks
    /\ bootClock = clock
    /\ \E kpis \in SeedKpiSamples : events = SeedEvents(Now(clock), kpis)
    /\ mainPc = IF mode = "demo" THEN "demo_digest" ELSE "start_scheduler"
    /\ duration \in IF mode = "demo" THEN 1..MaxDuration ELSE {0}
    /\ demoStart = 0
    /\ digestCount = 0
    /\ out = NoOut
    /\ lastOp = NoOp
    /\ alertCount = 0
    /\ lastAlert = NoAlert
    /\ iter = 0
    /\ wpc = "idle"
    /\ wake = 0
    /\ stopFlag = FALSE
    /\ sched = "none"
    /\ nextFire = 0
    /\ reader = NoReader

(***************************************************************************)
(* daily_digest and realtime_alert                                         *)
(***************************************************************************)
DailyDigest ==
    /\ out' = Listing("digest", events, TodayRange(clock))
    /\ digestCount' = digestCount + 1

RealtimeAlert(evt, action, c) ==
    /\ lastAlert' = [action |-> action, evt |-> <<evt>>, at |-> c]
    /\ alertCount' = alertCount + 1

\* The 'created' arm announcing the store's first event.
AlertCreateAnnouncesFirst(c, d, kpi) ==
    LET r == SimulateNewEvent(events, Now(c), d, kpi)
    IN  /\ events' = r.events
        /\ lastOp' = [op |-> "new", ret |-> r.ret, now |-> c]
        /\ RealtimeAlert(r.events[1], "created", c)
        /\ iter' = iter + 1

\* One pass of the alert branch at wall clock c: the 'created' arm.
AlertCreate(c, d, kpi) ==
    LET r == SimulateNewEvent(events, Now(c), d, kpi)
    IN  /\ events' = r.events
        /\ lastOp' = [op |-> "new", ret |-> r.ret, now |-> c]
        /\ RealtimeAlert(r.ret[1], "created", c)
        /\ iter' = iter + 1

AlertUpdateUnguarded(c, idx, inc) ==
    LET r == SimulateUpdateEvent(events, Now(c), idx, inc)
    IN  /\ events' = r.events
        /\ lastOp' = [op |-> "update", ret |-> r.ret, now |-> c]
        /\ lastAlert' = [action |-> "updated", evt |-> r.ret, at |-> c]
        /\ alertCount' = alertCount + 1
        /\ iter' = iter + 1

\* The 'updated' arm: no alert when simulate_update_event returned None.
AlertUpdate(c, idx, inc) ==
    LET r == SimulateUpdateEvent(events, Now(c), idx, inc)
    IN  /\ events' = r.events
        /\ lastOp' = [op |-> "update", ret |-> r.ret, now |-> c]
        /\ IF r.ret # <<>>
           THEN RealtimeAlert(r.ret[1], "updated", c)
           ELSE UNCHANGED <<lastAlert, alertCount>>
        /\ iter' = iter + 1

(***************************************************************************)
(* run_demo                                                                *)
(***************************************************************************)
Elapsed == clock - demoStart

DemoDigest ==
    /\ mainPc = "demo_digest"
    /\ DailyDigest
    /\ demoStart' = clock
    /\ mainPc' = "demo_loop"
    /\ UNCHANGED <<mode, clock, events, duration, lastOp, alertCount,
                   lastAlert, iter, wpc, wake, stopFlag, sched, nextFire,
                   bootClock, reader>>

DemoContinuesInclusive == Elapsed <= duration

\* while time.time() - start < duration
DemoContinues == Elapsed < duration

DemoCreate ==
    /\ mainPc = "demo_loop"
    /\ DemoContinues
    /\ \E delay \in DemoDelays, d \in NewDays, kpi \in NewKpis :
          /\ clock' = clock + delay
          /\ AlertCreate(clock + delay, d, kpi)
    /\ UNCHANGED <<mode, mainPc, duration, demoStart, digestCount, out, wpc,
                   wake, stopFlag, sched, nextFire, bootClock, reader>>

DemoUpdate ==
    /\ mainPc = "demo_loop"
    /\ DemoContinues
    /\ \E delay \in DemoDelays, idx \in ChoiceIdx(events), inc \in Bumps :
          /\ clock' = clock + delay
          /\ AlertUpdate(clock + delay, idx, inc)
    /\ UNCHANGED <<mode, mainPc, duration, demoStart, digestCount, out, wpc,
                   wake, stopFlag, sched, nextFire, bootClock, reader>>

DemoFinish ==
    /\ mainPc = "demo_loop"
    /\ ~DemoContinues
    /\ mainPc' = "done"
    /\ UNCHANGED <<mode, clock, events, duration, demoStart, digestCount, out,
                   lastOp, alertCount, lastAlert, iter, wpc, wake, stopFlag,
                   sched, nextFire, bootClock, reader>>

(***************************************************************************)
(* __main__, interactive mode: start_scheduler, start_alert_simulator,     *)
(* interactive_console, finally                                            *)
(***************************************************************************)
\* CronTrigger(hour=8, minute=0): the first 08:00 not before c.
NextDigestTime(c) ==
    LET today8 == (c \div DaySecs) * DaySecs + DigestHour * HourSecs
    IN  IF c <= today8 THEN today8 ELSE today8 + DaySecs

\* The scheduler started with the job also run once on the spot.
StartSchedulerRunsJob ==
    /\ mainPc = "start_scheduler"
    /\ sched' = "running"
    /\ nextFire' = NextDigestTime(clock)
    /\ mainPc' = "start_alert"
    /\ DailyDigest
    /\ UNCHANGED <<mode, clock, events, duration, demoStart, lastOp,
                   alertCount, lastAlert, iter, wpc, wake, stopFlag,
                   bootClock, reader>>

StartScheduler ==
    /\ mainPc = "start_scheduler"
    /\ sched' = "running"
    /\ nextFire' = NextDigestTime(clock)
    /\ mainPc' = "start_alert"
    /\ UNCHANGED <<mode, clock, events, duration, demoStart, digestCount, out,
                   lastOp, alertCount, lastAlert, iter, wpc, wake, stopFlag,
                   bootClock, reader>>

StartAlertSimulator ==
    /\ mainPc = "start_alert"
    /\ wpc' = "check"
    /\ mainPc' = "console"
    /\ UNCHANGED <<mode, clock, events, duration, demoStart, digestCount, out,
                   lastOp, alertCount, lastAlert, iter, wake, stopFlag, sched,
                   nextFire, bootClock, reader>>

\* What a command leaves alone besides what it prints and where the loop is.
ConsoleFrame ==
    UNCHANGED <<mode, clock, events, duration, demoStart, digestCount, lastOp,
                alertCount, lastAlert, iter, wpc, wake, stopFlag, sched,
                nextFire, bootClock, reader>>

UnknownCommands == {"foo", "todays"}

\* The loop body for one line read, already stripped and lower-cased.
CmdEmpty ==
    /\ mainPc = "console"
    /\ UNCHANGED <<mainPc, out>>
    /\ ConsoleFrame

CmdExit ==
    /\ mainPc = "console"
    /\ \E cmd \in {"exit", "quit"} : out' = Line("Goodbye.")
    /\ mainPc' = "finally_stop"
    /\ ConsoleFrame

\* End of input ending the process on the spot, past the finally block.
InputEndsSkipsShutdown ==
    /\ mainPc = "console"
    /\ out' = Line("Exiting.")
    /\ mainPc' = "done"
    /\ ConsoleFrame

InputEnds ==
    /\ mainPc = "console"
    /\ out' = Line("Exiting.")
    /\ mainPc' = "finally_stop"
    /\ ConsoleFrame

CmdHelp ==
    /\ mainPc = "console"
    /\ out' = Line("help")
    /\ UNCHANGED mainPc
    /\ ConsoleFrame

CmdToday ==
    /\ mainPc = "console"
    /\ out' = Listing("today", events, TodayRange(clock))
    /\ UNCHANGED mainPc
    /\ ConsoleFrame

CmdWeek ==
    /\ mainPc = "console"
    /\ out' = Listing("week", events, WeekRange(clock))
    /\ UNCHANGED mainPc
    /\ ConsoleFrame

CmdKpiKeepsListing ==
    /\ mainPc = "console"
    /\ out' = KpiSummary(events, clock)
    /\ events' = ListEvents(events, WeekRange(clock)[1], WeekRange(clock)[2])
    /\ UNCHANGED <<mainPc, mode, clock, duration, demoStart, digestCount,
                   lastOp, alertCount, lastAlert, iter, wpc, wake, stopFlag,
                   sched, nextFire, bootClock, reader>>

CmdKpi ==
    /\ mainPc = "console"
    /\ out' = KpiSummary(events, clock)
    /\ UNCHANGED mainPc
    /\ ConsoleFrame

CmdUnknownLeavesLoop ==
    /\ mainPc = "console"
    /\ \E cmd \in UnknownCommands : out' = Line("Unknown command.")
    /\ mainPc' = "finally_stop"
    /\ ConsoleFrame

CmdUnknown ==
    /\ mainPc = "console"
    /\ \E cmd \in UnknownCommands : out' = Line("Unknown command.")
    /\ UNCHANGED mainPc
    /\ ConsoleFrame

FinallyStop ==
    /\ mainPc = "finally_stop"
    /\ stopFlag' = TRUE
    /\ mainPc' = "finally_shutdown"
    /\ UNCHANGED <<mode, clock, events, duration, demoStart, digestCount, out,
                   lastOp, alertCount, lastAlert, iter, wpc, wake, sched,
                   nextFire, bootClock, reader>>

FinallyShutdown ==
    /\ mainPc = "finally_shutdown"
    /\ sched' = "shutdown"
    /\ mainPc' = "done"
    /\ UNCHANGED <<mode, clock, events, duration, demoStart, digestCount, out,
                   lastOp, alertCount, lastAlert, iter, wpc, wake, stopFlag,
                   nextFire, bootClock, reader>>

\* The background threads (daemon) live until the main flow has finished.
ProcessAlive == mode = "interactive" /\ mainPc # "done"

\* Time passes while the main thread waits for input or the threads sleep.
Tick ==
    /\ ProcessAlive
    /\ clock + TickStep <= bootClock + MaxTicks * TickStep
    /\ clock' = clock + TickStep
    /\ UNCHANGED <<mode, events, mainPc, duration, demoStart, digestCount, out,
                   lastOp, alertCount, lastAlert, iter, wpc, wake, stopFlag,
                   sched, nextFire, bootClock, reader>>

\* The scheduler's thread runs the job at its fire time.
SchedulerFire ==
    /\ ProcessAlive
    /\ sched = "running"
    /\ clock >= nextFire
    /\ DailyDigest
    /\ nextFire' = nextFire + DaySecs
    /\ UNCHANGED <<mode, clock, events, mainPc, duration, demoStart, lastOp,
                   alertCount, lastAlert, iter, wpc, wake, stopFlag, sched,
                   bootClock, reader>>

(***************************************************************************)
(* start_alert_simulator.worker                                            *)
(***************************************************************************)
WorkerFrame ==
    UNCHANGED <<mode, clock, mainPc, duration, demoStart, digestCount, out,
                stopFlag, sched, nextFire, bootClock, reader>>

\* The worker looping on while True.
WorkerSleepIgnoresStop ==
    /\ ProcessAlive
    /\ wpc = "check"
    /\ \E delay \in WorkerDelays : wake' = clock + delay
    /\ wpc' = "sleeping"
    /\ UNCHANGED <<events, lastOp, alertCount, lastAlert, iter>>
    /\ WorkerFrame

WorkerSleep ==
    /\ ProcessAlive
    /\ wpc = "check"
    /\ ~stopFlag
    /\ \E delay \in WorkerDelays : wake' = clock + delay
    /\ wpc' = "sleeping"
    /\ UNCHANGED <<events, lastOp, alertCount, lastAlert, iter>>
    /\ WorkerFrame

WorkerExit ==
    /\ ProcessAlive
    /\ wpc = "check"
    /\ stopFlag
    /\ wpc' = "exited"
    /\ UNCHANGED <<events, lastOp, alertCount, lastAlert, iter, wake>>
    /\ WorkerFrame

WorkerCreate ==
    /\ ProcessAlive
    /\ wpc = "sleeping"
    /\ clock >= wake
    /\ \E d \in NewDays, kpi \in NewKpis : AlertCreate(clock, d, kpi)
    /\ wpc' = "check"
    /\ UNCHANGED wake
    /\ WorkerFrame

WorkerUpdate ==
    /\ ProcessAlive
    /\ wpc = "sleeping"
    /\ clock >= wake
    /\ \E idx \in ChoiceIdx(events), inc \in Bumps : AlertUpdate(clock, idx, inc)
    /\ wpc' = "check"
    /\ UNCHANGED wake
    /\ WorkerFrame

Next ==
    \/ DemoDigest \/ DemoCreate \/ DemoUpdate \/ DemoFinish
    \/ StartScheduler \/ StartAlertSimulator
    \/ CmdEmpty \/ CmdExit \/ InputEnds \/ CmdHelp \/ CmdToday \/ CmdWeek
    \/ CmdKpi \/ CmdUnknown
    \/ FinallyStop \/ FinallyShutdown
    \/ Tick \/ SchedulerFire
    \/ WorkerSleep \/ WorkerExit \/ WorkerCreate \/ WorkerUpdate

Spec == Init /\ [][Next]_vars

(***************************************************************************)
(* The store and the readers on arbitrary store contents: cal.events set   *)
(* by the caller, then run_demo or interactive_console called on it, and   *)
(* cal.list_events called with arbitrary ranges.                           *)
(***************************************************************************)
StoredEvent(i, start, kpi) ==
    [id           |-> <<"evt", i>>,
     summary      |-> <<"Mock Event", i>>,
     start        |-> IsoFormat(start),
     end          |-> IsoFormat(Plus(start, HourSecs)),
     updated      |-> IsoFormat(Plus(start, -HourSecs)),
     kpi_estimate |-> kpi]

\* The same instant as dt, written with utcoffset 0.
InUtc(dt) == [wall |-> Utc(dt), off |-> 0]

StoreClocks == {DaySecs + 9 * HourSecs + 1800}

\* <<start, kpi_estimate>> of the events a store may hold at wall clock c.
EventSamples(c) ==
    LET now == Now(c)
        sod == StartOfDay(now)
    IN  { <<sod, 30>>,
          <<Plus(sod, DaySecs - 1), 20>>,
          <<InUtc(Plus(sod, DaySecs - 1)), 10>>,
          <<Plus(sod, DaySecs), 30>>,
          <<now, 10>>,
          <<Plus(now, WeekDays * DaySecs), 10>>,
          <<Plus(now, WeekDays * DaySecs + 1), 20>> }

StoresUpTo(c, maxLen) ==
    UNION { { [i \in 1..n |-> StoredEvent(i, f[i][1], f[i][2])] :
              f \in [1..n -> EventSamples(c)] } : n \in 0..maxLen }

RangeBounds(c) ==
    LET now == Now(c)
        sod == StartOfDay(now)
    IN  { sod, Plus(sod, DaySecs - 1), Plus(sod, DaySecs), now,
          InUtc(Plus(now, WeekDays * DaySecs)) }

InitStore ==
    /\ mode \in {"demo", "interactive"}
    /\ clock \in StoreClocks
    /\ bootClock = clock
    /\ events \in StoresUpTo(clock, IF mode = "demo" THEN 1 ELSE MaxLen)
    /\ mainPc = IF mode = "demo" THEN "demo_digest" ELSE "console"
    /\ duration = IF mode = "demo" THEN 1 ELSE 0
    /\ demoStart = 0
    /\ digestCount = 0
    /\ out = NoOut
    /\ lastOp = NoOp
    /\ alertCount = 0
    /\ lastAlert = NoAlert
    /\ iter = 0
    /\ wpc = "idle"
    /\ wake = 0
    /\ stopFlag = FALSE
    /\ sched = "none"
    /\ nextFire = 0
    /\ reader = NoReader

CallListEvents ==
    /\ mainPc = "console"
    /\ \E a \in RangeBounds(clock), b \in RangeBounds(clock) :
          out' = Listing("list_events", events, <<a, b>>)
    /\ UNCHANGED mainPc
    /\ ConsoleFrame

NextStore ==
    \/ DemoDigest \/ DemoCreate \/ DemoUpdate \/ DemoFinish
    \/ CmdEmpty \/ CmdExit \/ InputEnds \/ CmdHelp \/ CmdToday \/ CmdWeek
    \/ CmdKpi \/ CmdUnknown
    \/ CallListEvents

SpecStore == InitStore /\ [][NextStore]_vars

(***************************************************************************)
(* The reads step by step, beside the alert worker: today, week, kpi in    *)
(* the main thread and daily_digest in the scheduler's thread call         *)
(* list_events, whose loop reads cal.events one element at a time, and     *)
(* then read each listed dict when they print or add it; the worker's      *)
(* thread may write the store between any two of these steps. A sleep of   *)
(* the worker (10 s at least) outlasts a read, so one write at most falls  *)
(* within a read: time stands still in this specification. The update of   *)
(* an event is two writes of its dict, updated and then kpi_estimate.      *)
(***************************************************************************)
\* simulate_update_event up to e["updated"] = now.isoformat(); on an empty
\* store it returns None and the iteration is over.
WorkerUpdateStamp ==
    /\ ProcessAlive
    /\ wpc = "sleeping"
    /\ clock >= wake
    /\ IF events = <<>>
       THEN /\ lastOp' = [op |-> "update", ret |-> <<>>, now |-> clock]
            /\ wpc' = "check"
            /\ iter' = iter + 1
            /\ UNCHANGED events
       ELSE /\ \E idx \in 1..Len(events) :
                 LET e == [events[idx] EXCEPT
                              !.updated = IsoFormat(Now(clock))]
                 IN  /\ events' = [events EXCEPT ![idx] = e]
                     /\ lastOp' = [op |-> "update", ret |-> <<e>>,
                                   now |-> clock]
            /\ wpc' = "bumping"
            /\ UNCHANGED iter
    /\ UNCHANGED <<alertCount, lastAlert, wake>>
    /\ WorkerFrame

\* e["kpi_estimate"] = e.get("kpi_estimate", 10) + random.randint(1, 50) on
\* the dict chosen, then return e and the 'updated' alert.
WorkerUpdateBump ==
    /\ ProcessAlive
    /\ wpc = "bumping"
    /\ \E inc \in Bumps :
          LET idx == lastOp.ret[1].id[2]
              e   == [events[idx] EXCEPT !.kpi_estimate = @ + inc]
          IN  /\ events' = [events EXCEPT ![idx] = e]
              /\ lastOp' = [lastOp EXCEPT !.ret = <<e>>]
              /\ RealtimeAlert(e, "updated", clock)
    /\ iter' = iter + 1
    /\ wpc' = "check"
    /\ UNCHANGED wake
    /\ WorkerFrame

\* The store states a read has run alongside, with evs added when new.
Observe(r, evs) ==
    IF r.seen[Len(r.seen)] = evs THEN r
    ELSE [r EXCEPT !.seen = Append(@, evs)]

ReadRange(kind, c) ==
    IF kind \in {"today", "digest"} THEN TodayRange(c) ELSE WeekRange(c)

BeginRead(kind) ==
    [pc |-> "scan", kind |-> kind, range |-> ReadRange(kind, clock), k |-> 1,
     refs |-> <<>>, j |-> 1, list |-> <<>>, total |-> 0, seen |-> <<events>>]

ReadFrame ==
    UNCHANGED <<mode, clock, events, mainPc, duration, demoStart, lastOp,
                alertCount, lastAlert, iter, wpc, wake, stopFlag, sched,
                bootClock>>

\* today, week or kpi read from the prompt: now and the range are computed.
CmdReadBegin ==
    /\ mainPc = "console"
    /\ reader.pc = "idle"
    /\ \E kind \in {"today", "week", "kpi"} : reader' = BeginRead(kind)
    /\ UNCHANGED <<out, digestCount, nextFire>>
    /\ ReadFrame

\* The scheduler's thread starts daily_digest at its fire time.
DigestReadBegin ==
    /\ ProcessAlive
    /\ sched = "running"
    /\ clock >= nextFire
    /\ reader.pc = "idle"
    /\ reader' = BeginRead("digest")
    /\ nextFire' = nextFire + DaySecs
    /\ UNCHANGED <<out, digestCount>>
    /\ ReadFrame

\* list_events: one turn of "for e in self.events".
ReadScan ==
    /\ reader.pc = "scan"
    /\ reader.k <= Len(events)
    /\ LET s   == FromIsoFormat(events[reader.k].start)
           hit == InRange(reader.range[1], s, reader.range[2])
       IN  reader' = Observe([reader EXCEPT
                                 !.k = @ + 1,
                                 !.refs = IF hit THEN Append(@, reader.k)
                                          ELSE @],
                             events)
    /\ UNCHANGED <<out, digestCount, nextFire>>
    /\ ReadFrame

\* list_events: the loop finds the list exhausted and out is returned.
ReadReturn ==
    /\ reader.pc = "scan"
    /\ reader.k > Len(events)
    /\ reader' = Observe([reader EXCEPT !.pc = "emit"], events)
    /\ UNCHANGED <<out, digestCount, nextFire>>
    /\ ReadFrame

\* format_event(e), or one term of sum(e.get('kpi_estimate', 0) ...): the
\* dict behind the next reference is read as it is now.
ReadEmit ==
    /\ reader.pc = "emit"
    /\ reader.j <= Len(reader.refs)
    /\ LET e == events[reader.refs[reader.j]]
       IN  reader' = Observe([reader EXCEPT
                                 !.j = @ + 1,
                                 !.list = Append(@, e),
                                 !.total = @ + e.kpi_estimate],
                             events)
    /\ UNCHANGED <<out, digestCount, nextFire>>
    /\ ReadFrame

\* The kpi summary with len(cal.list_events(now, end)) called afresh.
ReadResultRecounts(r) ==
    IF r.kind = "kpi"
    THEN LET n == Len(ListEvents(events, r.range[1], r.range[2]))
         IN  [kind |-> "kpi", range |-> r.range, list |-> <<>>, count |-> n,
              total |-> r.total, avg |-> Average(r.total, n)]
    ELSE [NoOut EXCEPT !.kind = r.kind, !.range = r.range, !.list = r.list]

\* The block a finished read has printed.
ReadResult(r) ==
    IF r.kind = "kpi"
    THEN [kind |-> "kpi", range |-> r.range, list |-> <<>>,
          count |-> Len(r.refs), total |-> r.total,
          avg |-> Average(r.total, Len(r.refs))]
    ELSE [NoOut EXCEPT !.kind = r.kind, !.range = r.range, !.list = r.list]

ReadFinish ==
    /\ reader.pc = "emit"
    /\ reader.j > Len(reader.refs)
    /\ out' = ReadResult(reader)
    /\ reader' = Observe([reader EXCEPT !.pc = "idle"], events)
    /\ digestCount' = digestCount + (IF reader.kind = "digest" THEN 1 ELSE 0)
    /\ UNCHANGED nextFire
    /\ ReadFrame

ReadClocks == {DaySecs + DigestHour * HourSecs}

\* <<start, kpi_estimate>> of the events of a store read at wall clock c:
\* one starting today and within the week, one within the week only, one
\* today only.
ReadSamples(c) ==
    { <<Plus(Now(c), HourSecs), 10>>,
      <<Plus(Now(c), DaySecs), 20>>,
      <<Plus(Now(c), -HourSecs), 40>> }

ReadStores(c) ==
    UNION { { [i \in 1..n |-> StoredEvent(i, f[i][1], f[i][2])] :
              f \in [1..n -> ReadSamples(c)] } : n \in 0..MaxStore }

\* The prompt is up, the digest is due and the worker's sleep has run out.
InitRead ==
    /\ mode = "interactive"
    /\ clock \in ReadClocks
    /\ bootClock = clock - WorkerDelayMin
    /\ events \in ReadStores(clock)
    /\ mainPc = "console"
    /\ duration = 0
    /\ demoStart = 0
    /\ digestCount = 0
    /\ out = NoOut
    /\ lastOp = NoOp
    /\ alertCount = 0
    /\ lastAlert = NoAlert
    /\ iter = 0
    /\ wpc = "sleeping"
    /\ wake = clock
    /\ stopFlag = FALSE
    /\ sched = "running"
    /\ nextFire = clock
    /\ reader = NoReader

NextRead ==
    \/ CmdReadBegin \/ DigestReadBegin
    \/ ReadScan \/ ReadReturn \/ ReadEmit \/ ReadFinish
    \/ WorkerSleep \/ WorkerCreate \/ WorkerUpdateStamp \/ WorkerUpdateBump

SpecRead == InitRead /\ [][NextRead]_vars

(***************************************************************************)
(* Properties                                                              *)
(***************************************************************************)
\* The UTC instant, in seconds, an ISO string denotes.
Instant(iso) ==
    ((iso.date * 24 + iso.hh) * 60 + iso.mm - iso.off) * 60 + iso.ss

\* A step of the alert simulator that called simulate_new_event.
CreateStep == iter' = iter + 1 /\ lastOp'.op = "new"

\* A step of the alert simulator that called simulate_update_event.
UpdateStep == iter' = iter + 1 /\ lastOp'.op = "update"

\* A step that printed a listing of list_events.
ListingStep ==
    out' # out /\ out'.kind \in {"list_events", "today", "week", "digest"}

\* C1: list_events(a, b) returns exactly the stored events with
\* a <= start <= b, in store order, the empty sequence when a > b, and
\* leaves the store unchanged.
C1_ListEventsExact ==
    [][ListingStep =>
          LET a == out'.range[1]
              b == out'.range[2]
              Within(e) == /\ Utc(a) <= Instant(e.start)
                           /\ Instant(e.start) <= Utc(b)
          IN  /\ out'.list = SelectSeq(events, Within)
              /\ (Utc(a) > Utc(b) => out'.list = <<>>)
              /\ events' = events]_vars

C1_Witness ==
    /\ out.kind = "list_events"
    /\ out.list # <<>>
    /\ Len(out.list) < Len(events)
    /\ out.list[1] = events[2]

\* C2: simulate_new_event appends exactly one event at the end, whose id
\* differs from every id already stored and whose start day is between
\* today and 5 days ahead.
C2_CreateAppendsFreshId ==
    [][CreateStep =>
          LET n == Len(events)
              e == events'[n + 1]
          IN  /\ Len(events') = n + 1
              /\ SubSeq(events', 1, n) = events
              /\ lastOp'.ret = <<e>>
              /\ \A k \in 1..n : events[k].id # e.id
              /\ e.start.date - (clock' \div DaySecs) \in 0..5]_vars

C2_Witness ==
    /\ lastOp.op = "new"
    /\ iter = 2
    /\ Len(events) = SeedCount + 1
    /\ events[Len(events)].start.date = (clock \div DaySecs) + 5

\* C3: on a non-empty store simulate_update_event returns a member of the
\* store whose updated is the call's now and whose kpi_estimate is strictly
\* greater than before; the other events and the length are unchanged.
C3_UpdateBumpsOneEvent ==
    [][(UpdateStep /\ events # <<>>) =>
          /\ Len(lastOp'.ret) = 1
          /\ Len(events') = Len(events)
          /\ \E k \in 1..Len(events) :
                /\ events'[k] = lastOp'.ret[1]
                /\ Instant(events'[k].updated) = Utc(Now(clock'))
                /\ events'[k].kpi_estimate > events[k].kpi_estimate
                /\ \A j \in 1..Len(events) \ {k} : events'[j] = events[j]]_vars

C3_Witness ==
    /\ lastOp.op = "update"
    /\ lastOp.ret # <<>>
    /\ \E k \in 1..Len(events) : events[k] = lastOp.ret[1]

\* C4: on an empty store simulate_update_event returns None and leaves the
\* store unchanged, and the alert simulator announces nothing.
C4_EmptyUpdateIsSilent ==
    [][(UpdateStep /\ events = <<>>) =>
          /\ lastOp'.ret = <<>>
          /\ events' = <<>>
          /\ alertCount' = alertCount
          /\ lastAlert' = lastAlert]_vars

C4_Witness ==
    /\ events = <<>>
    /\ lastOp.op = "update"
    /\ lastOp.ret = <<>>
    /\ iter = 1
    /\ alertCount = 0

\* C5: no operation sets an event's updated to an earlier value.
C5_UpdatedNeverDecreases ==
    [][\A k \in 1..Len(events) :
          Instant(events'[k].updated) >= Instant(events[k].updated)]_vars

DemoNext == DemoDigest \/ DemoCreate \/ DemoUpdate \/ DemoFinish

\* C6 as claimed: the digest runs exactly once, before any alert iteration,
\* and at exit the elapsed time does not exceed the duration.
C6_DemoEndsWithinDuration ==
    mode = "demo" =>
        /\ digestCount <= 1
        /\ (iter > 0 => digestCount = 1)
        /\ (mainPc = "done" => digestCount = 1 /\ Elapsed <= duration)

\* C6 as amended: the digest runs exactly once, before any alert iteration;
\* the demo can always take its next step until it is done, each iteration
\* sleeps at least 2, and at exit duration <= elapsed < duration + 6.
C6_DemoEndsOnceDurationReached ==
    mode = "demo" =>
        /\ digestCount <= 1
        /\ (iter > 0 => digestCount = 1)
        /\ (mainPc # "done" => ENABLED DemoNext)
        /\ (mainPc # "demo_digest" => 2 * iter <= Elapsed)
        /\ (mainPc = "demo_loop" => Elapsed < duration + 6)
        /\ (mainPc = "done" =>
               digestCount = 1 /\ duration <= Elapsed /\ Elapsed < duration + 6)

C6_Witness ==
    /\ mode = "demo"
    /\ mainPc = "done"
    /\ digestCount = 1
    /\ iter = 2
    /\ Elapsed > duration

\* C7: the digest and every command leave the store unchanged; the store
\* changes only in a create or a mutate of the alert simulator.
C7_OnlyAlertSimulatorWrites ==
    [][/\ (\/ digestCount' # digestCount
           \/ out' # out
           \/ (mainPc = "console" /\ mainPc' # mainPc)) => events' = events
       /\ events' # events => (CreateStep \/ UpdateStep)]_vars

C7_Witness ==
    /\ out.kind = "kpi"
    /\ out.count > 0
    /\ digestCount = 1
    /\ iter = 1
    /\ Len(events) = SeedCount + 1

\* C8: an unknown command only prints its diagnostic: the store and every
\* other part of the state are unchanged and the loop is still prompting.
C8_UnknownCommandIsInert ==
    [][(mainPc = "console" /\ out' # out /\ out'.kind = "Unknown command.") =>
          /\ mainPc' = "console"
          /\ out' = Line("Unknown command.")
          /\ UNCHANGED <<mode, clock, events, duration, demoStart,
                         digestCount, lastOp, alertCount, lastAlert, iter,
                         wpc, wake, stopFlag, sched, nextFire, bootClock,
                         reader>>]_vars

C8_Witness ==
    /\ out.kind = "Unknown command."
    /\ mainPc = "console"
    /\ iter = 1

\* The positions of the events starting within now .. now + 7 days.
InWeek(evs, c) ==
    {k \in 1..Len(evs) :
        /\ Utc(Now(c)) <= Instant(evs[k].start)
        /\ Instant(evs[k].start) <= Utc(Now(c)) + 7 * 86400}

RECURSIVE KpiOver(_, _)
KpiOver(evs, S) ==
    IF S = {} THEN 0
    ELSE LET k == CHOOSE x \in S : TRUE
         IN  evs[k].kpi_estimate + KpiOver(evs, S \ {k})

\* C9: kpi reports the number of events starting in [now, now + 7 days],
\* the sum of their kpi_estimate, and their quotient as the average, 0 when
\* there is no such event.
C9_KpiSummary ==
    [][(out' # out /\ out'.kind = "kpi") =>
          LET S == InWeek(events, clock)
          IN  /\ out'.count = Cardinality(S)
              /\ out'.total = KpiOver(events, S)
              /\ out'.avg[2] > 0
              /\ out'.count > 0 =>
                    out'.avg[1] * out'.count = out'.total * out'.avg[2]
              /\ out'.count = 0 => out'.avg[1] = 0]_vars

C9_Witness ==
    /\ out.kind = "kpi"
    /\ Len(events) = 3
    /\ InWeek(events, clock) = {1, 2, 3}
    /\ events[1].kpi_estimate = 10
    /\ events[2].kpi_estimate = 20
    /\ events[3].kpi_estimate = 30
    /\ out.count = 3
    /\ out.total = 60
    /\ out.avg[1] = 20 * out.avg[2]

\* The UTC instant of local wall time h:m:s on day d.
LocalInstant(d, h, m, s) ==
    ((d * 24 + h) * 60 + m - PacificOffsetMin) * 60 + s

\* C10: today and the digest list an event starting at 23:59:59 or at
\* 00:00:00 of the current local day, and not one starting at 00:00:00 of
\* the next day.
C10_TodayBoundaries ==
    [][(out' # out /\ out'.kind \in {"today", "digest"}) =>
          LET day == clock \div DaySecs
              Listed(k) == \E j \in 1..Len(out'.list) : out'.list[j] = events[k]
          IN  \A k \in 1..Len(events) :
                /\ Instant(events[k].start) = LocalInstant(day, 23, 59, 59)
                      => Listed(k)
                /\ Instant(events[k].start) = LocalInstant(day, 0, 0, 0)
                      => Listed(k)
                /\ Instant(events[k].start) = LocalInstant(day + 1, 0, 0, 0)
                      => ~Listed(k)]_vars

C10_Witness ==
    /\ out.kind = "today"
    /\ Len(events) = 3
    /\ Instant(events[1].start) = LocalInstant(clock \div DaySecs, 23, 59, 59)
    /\ Instant(events[2].start) = LocalInstant(clock \div DaySecs + 1, 0, 0, 0)
    /\ Instant(events[3].start) = LocalInstant(clock \div DaySecs, 0, 0, 0)
    /\ out.list = <<events[1], events[3]>>

\* C11: until the first alert iteration the store is what seeding made:
\* exactly 10 events; the k-th starts on local day today + k - 1 and ends
\* exactly one hour after its start; no two of them share an id.
C11_SeedTenConsecutiveDays ==
    iter = 0 =>
        /\ Len(events) = 10
        /\ \A k \in 1..10 :
              /\ events[k].start.date = bootClock \div 86400 + k - 1
              /\ Instant(events[k].start) < Instant(events[k].end)
              /\ Instant(events[k].end) - Instant(events[k].start) = 3600
        /\ \A j, k \in 1..10 : j # k => events[j].id # events[k].id

C11_Witness ==
    /\ iter = 0
    /\ Len(events) = 10
    /\ events[1].start.date = clock \div DaySecs
    /\ events[10].start.date = clock \div DaySecs + 9
    /\ events[10].end.hh = events[10].start.hh + 1

\* C12 (as stated): once the stop flag is set the worker eventually leaves
\* its loop; on a run that ends, it has left its loop when the process ends.
C12_WorkerExitsAfterStop ==
    (mode = "interactive" /\ mainPc = "done") => wpc = "exited"

\* C12: once the stop flag is set it stays set and the worker begins no new
\* delay; the only iteration that still completes is the one whose delay
\* was already running, and a worker that checks the flag while the process
\* lives can only leave its loop, and stays out.
C12_NoNewIterationAfterStop ==
    [][stopFlag =>
          /\ stopFlag'
          /\ (wpc' = "sleeping" => wpc = "sleeping" /\ wake' = wake)
          /\ (iter' # iter =>
                 iter' = iter + 1 /\ wpc = "sleeping" /\ wpc' = "check")
          /\ (wpc = "check" => wpc' \in {"check", "exited"})
          /\ (wpc = "exited" => wpc' = "exited")
          /\ ((wpc = "check" /\ ProcessAlive) => ENABLED WorkerExit)]_vars

C12_Witness ==
    /\ stopFlag
    /\ wpc = "exited"
    /\ iter = 1
    /\ lastOp.now = bootClock + WorkerDelayMin
    /\ mainPc = "done"

\* The main flow has left the command loop.
LoopLeft ==
    /\ mode = "interactive"
    /\ mainPc \in {"finally_stop", "finally_shutdown", "done"}

\* C13: the command loop is left only by exit, quit or the end of input,
\* each time with its farewell printed and into the shutdown steps; these
\* set the stop flag, then shut the scheduler down, after which no digest
\* runs; each shutdown step can be taken whatever the worker is doing; and
\* the process ends only with the flag set and the scheduler shut down.
C13_EveryExitShutsDown ==
    [][/\ (mainPc = "console" /\ mainPc' # "console") =>
              /\ mainPc' = "finally_stop"
              /\ out' \in {Line("Goodbye."), Line("Exiting.")}
              /\ UNCHANGED <<events, wpc, wake, stopFlag, sched>>
       /\ LoopLeft => LoopLeft'
       /\ mainPc = "finally_stop" => ENABLED FinallyStop
       /\ mainPc = "finally_shutdown" => ENABLED FinallyShutdown
       /\ mainPc' = "finally_stop" => (ENABLED FinallyStop)'
       /\ mainPc' = "finally_shutdown" =>
              (stopFlag' /\ (ENABLED FinallyShutdown)')
       /\ (mainPc' = "done" /\ mode = "interactive") =>
              (stopFlag' /\ sched' = "shutdown")
       /\ sched = "shutdown" =>
              (sched' = "shutdown" /\ digestCount' = digestCount)
       /\ (mainPc' # mainPc /\ LoopLeft) => UNCHANGED <<wpc, iter, clock>>]_vars

C13_Witness ==
    /\ mode = "interactive"
    /\ mainPc = "done"
    /\ out = Line("Exiting.")
    /\ stopFlag
    /\ sched = "shutdown"
    /\ wpc = "sleeping"
    /\ clock < wake

\* C15: an alert iteration ends its delay (2..6 s in the demo loop, the
\* worker's sleep of 10..20 s run out) and changes the store in exactly one
\* way: it appends one event and announces that event once as 'created',
\* or it replaces the event at one position and announces the new value
\* once as 'updated'. The announcement count changes only in such a step.
C15_OneWriteOneAlert ==
    [][/\ iter' # iter =>
             /\ iter' = iter + 1
             /\ alertCount' = alertCount + 1
             /\ lastAlert'.at = clock'
             /\ IF mode = "demo"
                THEN mainPc = "demo_loop" /\ clock' - clock \in 2..6
                ELSE wpc = "sleeping" /\ clock >= wake /\ wpc' = "check"
             /\ \/ /\ lastAlert'.action = "created"
                   /\ events' = events \o lastAlert'.evt
                   /\ Len(lastAlert'.evt) = 1
                \/ /\ lastAlert'.action = "updated"
                   /\ Len(lastAlert'.evt) = 1
                   /\ \E k \in 1..Len(events) :
                         /\ events'[k] # events[k]
                         /\ events' = [events EXCEPT ![k] = lastAlert'.evt[1]]
       /\ (wpc = "check" /\ wpc' = "sleeping") => wake' - clock \in 10..20
       /\ (alertCount' # alertCount \/ lastAlert' # lastAlert) =>
             (iter' = iter + 1 /\ events' # events)
       /\ events' # events => iter' = iter + 1]_vars

C15_Witness ==
    /\ mode = "demo"
    /\ iter = 2
    /\ alertCount = 2
    /\ lastAlert.action = "updated"
    /\ lastAlert.evt = <<events[SeedCount + 1]>>
    /\ Len(events) = SeedCount + 1

\* C16: in interactive mode, whenever the command loop is reading, the
\* scheduler is running with its trigger set to an 08:00 not before the
\* process start, and the worker thread has been started; nothing has been
\* printed by a command while either is missing; and the digest has run at
\* most once per 08:00:00 passed since the process started, so not at
\* startup.
C16_StartedBeforeFirstRead ==
    mode = "interactive" =>
        /\ mainPc = "console" => (sched = "running" /\ wpc # "idle")
        /\ (sched = "none" \/ wpc = "idle") =>
              /\ mainPc \in {"start_scheduler", "start_alert"}
              /\ out.kind \in {"none", "digest"}
        /\ sched = "running" =>
              (nextFire % 86400 = 8 * 3600 /\ nextFire >= bootClock)
        /\ digestCount > 0 =>
              digestCount <= Cardinality({t \in bootClock..clock :
                                             t % 86400 = 8 * 3600})

C16_Witness ==
    /\ mode = "interactive"
    /\ mainPc = "console"
    /\ out.kind = "today"
    /\ sched = "running"
    /\ wpc = "check"
    /\ clock = bootClock
    /\ digestCount = 0

\* Every event of evs starts before it ends and carries the id of its
\* 1-based position, and no two events of evs share an id.
WellFormedStore(evs) ==
    /\ \A k \in 1..Len(evs) :
          /\ Instant(evs[k].start) < Instant(evs[k].end)
          /\ evs[k].id = <<"evt", k>>
    /\ Cardinality({evs[k].id : k \in 1..Len(evs)}) = Len(evs)

\* C17: the initial store is well formed; no step shortens the store; and
\* every position a step adds or changes holds an event with start < end
\* and id evt-k that, if the position was there before, has the id,
\* summary, start and end it had. So in every state each event has
\* start < end, the event at position k has id evt-k, and the ids are
\* pairwise distinct.
C17_AppendOnlyImmutable ==
    /\ WellFormedStore(events)
    /\ [][/\ Len(events') >= Len(events)
          /\ \A k \in 1..Len(events') :
                (k > Len(events) \/ events'[k] # events[k]) =>
                    /\ Instant(events'[k].start) < Instant(events'[k].end)
                    /\ events'[k].id = <<"evt", k>>
                    /\ k <= Len(events) =>
                          /\ events'[k].id = events[k].id
                          /\ events'[k].summary = events[k].summary
                          /\ events'[k].start = events[k].start
                          /\ events'[k].end = events[k].end]_vars

C17_Witness ==
    /\ iter = 2
    /\ Len(events) = SeedCount + 1
    /\ lastOp.op = "update"
    /\ lastOp.ret = <<events[1]>>
    /\ events[1].kpi_estimate = SeedKpiMin + BumpMax
    /\ events[SeedCount + 1].start.hh = NewHour

\* C18: the store of a run never holds fewer than 10 events, every call of
\* simulate_update_event has returned an event, and every completed alert
\* iteration has made its announcement.
C18_UpdateNeverReturnsNone ==
    /\ Len(events) >= 10
    /\ lastOp.op = "update" => Len(lastOp.ret) = 1
    /\ alertCount = iter
    /\ iter > 0 => (Len(lastAlert.evt) = 1 /\ lastAlert.evt = lastOp.ret)

C18_Witness ==
    /\ mode = "interactive"
    /\ lastOp.op = "update"
    /\ lastOp.ret = <<events[SeedCount]>>
    /\ Len(events) = SeedCount
    /\ alertCount = 1
    /\ wpc = "check"

\* C19: a demo iteration begins only while elapsed < duration and lasts
\* 2..6 s; the loop is left only once elapsed >= duration; and when the
\* demo is done it has made at least one iteration, duration <= elapsed <
\* duration + 6, and ceil(duration / 6) <= iterations <= ceil(duration / 2).
C19_DemoIterationBounds ==
    [][mode = "demo" =>
          /\ iter' # iter =>
                /\ iter' = iter + 1
                /\ clock - demoStart < duration
                /\ clock' - clock \in 2..6
          /\ (mainPc = "demo_loop" /\ mainPc' = "done") =>
                /\ clock - demoStart >= duration
                /\ clock' = clock
          /\ mainPc' = "done" =>
                /\ duration > 0
                /\ iter' >= 1
                /\ duration <= clock' - demoStart'
                /\ clock' - demoStart' < duration + 6
                /\ (duration + 5) \div 6 <= iter'
                /\ iter' <= (duration + 1) \div 2]_vars

C19_Witness ==
    /\ mode = "demo"
    /\ mainPc = "done"
    /\ duration = 3
    /\ iter = 2
    /\ clock - demoStart = 8

\* What a read of the given kind prints when it runs on store state evs
\* in one piece at wall clock c.
AtOnce(kind, evs, c) ==
    IF kind = "kpi" THEN KpiSummary(evs, c)
    ELSE Listing(kind, evs, ReadRange(kind, c))

====
